---- MODULE Spec2Model ----
\* Model of pkg/catalogsourceconfig/manifest.go: the builder that writes an
\* operator-registry manifest (package directory, package YAML, one bundle
\* directory per CSV with its owned CRD YAMLs and the CSV YAML) to disk, and
\* removes it again.
EXTENDS Integers, Sequences, FiniteSets, TLC

\* ---------------------------------------------------------------- bounds
MaxReleases == 2    \* CSVs in a SingleOperatorManifest
MaxFaults == 1      \* transient I/O errors (EIO, ENOSPC) the disk may raise
MaxShared == 1      \* CSVs in a SingleOperatorManifest that two builders share

\* ---------------------------------------------------------------- inputs
Builders == {1, 2}
PackageIDs == {"", "etcd"}
Versions == {"", "0.6.1", "0.9.0"}
Keys == {"EtcdCluster", "EtcdBackup"}
\* the owned sections a CSV may have: nothing, or both keys
OwnedLists == {<<>>, <<"EtcdCluster", "EtcdBackup">>}
\* the CRD slices a package may have: EtcdBackup missing; both keys under
\* their own names; both keys under one name
CRDLists ==
    {<<[key |-> "EtcdCluster", name |-> "etcdclusters"]>>,
     <<[key |-> "EtcdCluster", name |-> "etcdclusters"], [key |-> "EtcdBackup", name |-> "etcdbackups"]>>,
     <<[key |-> "EtcdCluster", name |-> "etcdclusters"], [key |-> "EtcdBackup", name |-> "etcdclusters"]>>}
\* the n-th CSV of a package has the n-th name
CSVNames == <<"etcdoperator.v1", "etcdoperator.v2", "etcdoperator.v3">>
ParentStates == {"missing", "rw", "ro"}

SeqsUpTo(S, n) == UNION {[1..k -> S] : k \in 0..n}

\* ---------------------------------------------------------------- paths
\* A path is the sequence of its components; <<>> is "/" as a location and
\* stands for the empty string as the value of the manifestDir field.
NoDir == <<>>

\* filepath.Join: empty elements are ignored.
Join(dir, name) == IF name = "" THEN dir ELSE Append(dir, name)

Parent(p) == SubSeq(p, 1, Len(p) - 1)

IsPrefix(p, q) == Len(p) <= Len(q) /\ SubSeq(q, 1, Len(p)) = p

\* ---------------------------------------------------------------- errors
Err(kind, path, csv, key) == [kind |-> kind, path |-> path, csv |-> csv, key |-> key]
Nil == Err("nil", <<>>, "", "")

\* ---------------------------------------------------------------- state
VARIABLES
    singleManifest,  \* the *datastore.SingleOperatorManifest all builders point to
    registryDir,     \* manifest.registryDir of each builder
    manifestDir,     \* manifest.manifestDir of each builder
    pc,              \* position of each builder: "idle" or the step of Create it is at
    csvIdx,          \* createBundles: index of the CSV being processed
    crdIdx,          \* createCRDYAMLs: index of the owned key being processed
    bundleDir,       \* createBundle: the local bundleDir
    dirs,            \* directories on disk
    files,           \* regular files on disk, path -> contents
    readonly,        \* directories on disk the process may not write to
    faults,          \* transient I/O errors the disk may still raise
    last,            \* name and result of the last call made on each builder
    prev,            \* the call completed before that one, if made since the last Create
    before,          \* the disk at and under the parent directory, as it was when
                     \* the last Create was called
    firstErr,        \* first error met inside the current or last Create
    errAt,           \* index of the CSV where that error was met (0: not in a bundle)
    perm,            \* permission bits of the entries the builder made, path -> mode
    call             \* the last direct call of createYAML: its arguments and result

vars == <<singleManifest, registryDir, manifestDir, pc, csvIdx, crdIdx, bundleDir,
          dirs, files, readonly, faults, last, prev, before, firstErr,
          errAt, perm, call>>

\* ---------------------------------------------------------------- datastore
\* (pkg/datastore is not part of the sources; its accessors are modelled
\* as plain field reads of the model objects.)
GetPackageID(sm) == sm.PackageID

Package(sm) == [packageName |-> sm.PackageID]

GetVersion(csv) ==
    IF csv.versionErr THEN [version |-> "", err |-> Err("version", <<>>, csv.name, "")]
    ELSE [version |-> csv.version, err |-> Nil]

GetCustomResourceDefintions(csv) == [owned |-> csv.owned, err |-> Nil]

CSVGetName(csv) == csv.name

CRDGetName(crd) == crd.name

CRDKey(crd) == crd.key

\* ---------------------------------------------------------------- file system
Exists(p) == p = <<>> \/ p \in dirs \/ p \in DOMAIN files

IsDir(p) == p = <<>> \/ p \in dirs

Under(p) == {q \in dirs \cup DOMAIN files : IsPrefix(p, q)}

\* os.Mkdir without an I/O error
MkdirOK(dir) ==
    /\ dir # <<>>
    /\ ~Exists(dir)
    /\ IsDir(Parent(dir))
    /\ Parent(dir) \notin readonly

\* ioutil.WriteFile: can the file be opened with O_WRONLY|O_CREATE|O_TRUNC
OpenOK(file) ==
    /\ file # <<>>
    /\ IsDir(Parent(file))
    /\ file \notin dirs
    /\ (file \in DOMAIN files \/ Parent(file) \notin readonly)

\* os.RemoveAll: an entry goes when its directory is writable and everything
\* beneath it went; the call fails when something stays.
Stuck(path) == {q \in Under(path) : Parent(q) \in readonly}

Kept(path) == {q \in Under(path) : \E s \in Stuck(path) : IsPrefix(q, s)}

\* os.Remove in place of os.RemoveAll: only a file or an empty directory goes
RemoveAllAsRemove(path) ==
    LET ok == Exists(path) /\ path # <<>> /\ Under(path) = {path} /\ Parent(path) \notin readonly IN
    [err |-> IF ok THEN Nil ELSE Err("remove", path, "", ""),
     dirs |-> IF ok THEN dirs \ {path} ELSE dirs,
     readonly |-> IF ok THEN readonly \ {path} ELSE readonly,
     perm |-> IF ok THEN [p \in DOMAIN perm \ {path} |-> perm[p]] ELSE perm,
     files |-> IF ok THEN [p \in DOMAIN files \ {path} |-> files[p]] ELSE files]

\* os.RemoveAll whose error is dropped
RemoveAllQuiet(path) ==
    LET gone == Under(path) \ {q \in Under(path) : \E s \in Stuck(path) : IsPrefix(q, s)} IN
    [err |-> Nil,
     dirs |-> dirs \ gone,
     readonly |-> readonly \ gone,
     perm |-> [p \in DOMAIN perm \ gone |-> perm[p]],
     files |-> [p \in DOMAIN files \ gone |-> files[p]]]

\* os.RemoveAll that does not tolerate a path that is not there
RemoveAllStrict(path) ==
    LET gone == Under(path) \ {q \in Under(path) : \E s \in Stuck(path) : IsPrefix(q, s)} IN
    [err |-> IF gone = Under(path) /\ Exists(path) THEN Nil ELSE Err("remove", path, "", ""),
     dirs |-> dirs \ gone,
     readonly |-> readonly \ gone,
     perm |-> [p \in DOMAIN perm \ gone |-> perm[p]],
     files |-> [p \in DOMAIN files \ gone |-> files[p]]]

RemoveAll(path) ==
    LET gone == Under(path) \ Kept(path) IN
    [err |-> IF Kept(path) = {} THEN Nil ELSE Err("remove", path, "", ""),
     dirs |-> dirs \ gone,
     readonly |-> readonly \ gone,
     perm |-> [p \in DOMAIN perm \ gone |-> perm[p]],
     files |-> [p \in DOMAIN files \ gone |-> files[p]]]

\* A Go value is a record of its fields. A value holding a callback (a func
\* or chan field) is one encoding/json refuses.
Unserializable(obj) == "callback" \in DOMAIN obj

\* the YAML document of a value: one "field: value" entry per field, in no
\* order (yaml.Marshal goes through a JSON object)
Encode(obj) == {<<k, obj[k]>> : k \in DOMAIN obj}

\* yaml.Marshal
Marshal(obj) ==
    IF Unserializable(obj)
    THEN [err |-> Err("marshal", <<>>, "", ""), raw |-> [yaml |-> {}]]
    ELSE [err |-> Nil, raw |-> [yaml |-> Encode(obj)]]

\* what a write that failed half way leaves in the file: a strict prefix of
\* the document, cut inside an entry
Truncated == [truncated |-> TRUE]
\* contents the builder did not write
Foreign == [foreign |-> TRUE]

\* yaml.Unmarshal of the contents of a file (as checkYaml reads it back)
Unmarshal(raw) ==
    IF "yaml" \in DOMAIN raw
    THEN [err |-> Nil,
          obj |-> [k \in {e[1] : e \in raw.yaml} |-> (CHOOSE e \in raw.yaml : e[1] = k)[2]]]
    ELSE [err |-> Err("unmarshal", <<>>, "", ""), obj |-> <<>>]

\* the permission bits the builder asks for
DirMode == 448     \* 0700
FileMode == 438    \* 0666

\* os.MkdirAll in place of os.Mkdir: a directory that is there is no error
createDirAsMkdirAll(dir, fault) ==
    IF (MkdirOK(dir) \/ dir \in dirs) /\ ~fault
    THEN [err |-> Nil, dirs |-> dirs \cup {dir},
          perm |-> IF dir \in dirs THEN perm ELSE (dir :> DirMode) @@ perm]
    ELSE [err |-> Err("mkdir", dir, "", ""), dirs |-> dirs, perm |-> perm]

\* createDir: fault is a transient error of the mkdir system call
createDir(dir, fault) ==
    IF MkdirOK(dir) /\ ~fault
    THEN [err |-> Nil, dirs |-> dirs \cup {dir}, perm |-> (dir :> DirMode) @@ perm]
    ELSE [err |-> Err("mkdir", dir, "", ""), dirs |-> dirs, perm |-> perm]

\* ioutil.WriteFile creates the file with the mode asked for; a file that is
\* there keeps its mode
Created(file, mode) == IF file \in DOMAIN files THEN perm ELSE (file :> mode) @@ perm

\* createYAML with the file opened before the value is marshaled
createYAMLOpenFirst(obj, file, fault, partial) ==
    LET m == Marshal(obj) IN
    IF ~OpenOK(file) THEN [err |-> Err("write", file, "", ""), files |-> files, perm |-> perm]
    ELSE IF m.err # Nil
         THEN [err |-> Err("marshal", file, "", ""),
               files |-> (file :> Truncated) @@ files, perm |-> Created(file, FileMode)]
    ELSE IF fault
         THEN [err |-> Err("write", file, "", ""),
               files |-> IF partial THEN (file :> Truncated) @@ files ELSE files,
               perm |-> IF partial THEN Created(file, FileMode) ELSE perm]
    ELSE [err |-> Nil, files |-> (file :> m.raw) @@ files, perm |-> Created(file, FileMode)]

\* createYAML: fault is a transient error of the write; it leaves the file
\* opened and truncated when partial, and is raised by the open otherwise
createYAML(obj, file, fault, partial) ==
    LET m == Marshal(obj) IN
    IF m.err # Nil THEN [err |-> Err("marshal", file, "", ""), files |-> files, perm |-> perm]
    ELSE IF ~OpenOK(file) THEN [err |-> Err("write", file, "", ""), files |-> files, perm |-> perm]
    ELSE IF fault
         THEN [err |-> Err("write", file, "", ""),
               files |-> IF partial THEN (file :> Truncated) @@ files ELSE files,
               perm |-> IF partial THEN Created(file, FileMode) ELSE perm]
    ELSE [err |-> Nil, files |-> (file :> m.raw) @@ files, perm |-> Created(file, FileMode)]

\* ---------------------------------------------------------------- manifest
CSVs == singleManifest.ClusterServiceVersions

CRDs == singleManifest.CustomResourceDefinitions

\* createCRDYAMLs lines 117-120: the map built from the CRD slice; a later
\* CRD with the same key replaces an earlier one
CrdMapFound(key) == \E n \in 1..Len(CRDs) : CRDKey(CRDs[n]) = key

CrdMap(key) ==
    LET n == CHOOSE m \in 1..Len(CRDs) :
                 /\ CRDKey(CRDs[m]) = key
                 /\ \A l \in (m + 1)..Len(CRDs) : CRDKey(CRDs[l]) # key
    IN CRDs[n]

\* the root computed from the registryDir of the first builder, as if the
\* field were shared by the instances
ManifestDirOfFirst(b) == Join(registryDir[1], GetPackageID(singleManifest))

ManifestDirOf(b) == Join(registryDir[b], GetPackageID(singleManifest))

PackageYAMLPath(b) == Join(manifestDir[b], GetPackageID(singleManifest) \o ".package.yaml")

CRDYAMLPath(crd, dir) == Join(dir, CRDGetName(crd) \o ".crd.yaml")

\* the CSV written under the CRD suffix
CSVYAMLPathAsCRD(csv, dir) == Join(dir, CSVGetName(csv) \o ".crd.yaml")

CSVYAMLPath(csv, dir) == Join(dir, CSVGetName(csv) \o ".csv.yaml")

\* createBundles lines 97-102: what the loop does with the error createBundle
\* returned: the result of the call is dropped, the loop goes on and the
\* named result err is never assigned
createBundlesOnError(e) == [stop |-> FALSE, err |-> Nil]

\* ---------------------------------------------------------------- initial state
\* a CSV without a usable version is listed without owned keys: they are never read
ReleaseShapes ==
    {r \in [version : Versions, versionErr : BOOLEAN, owned : OwnedLists] :
        /\ r.versionErr => r.version = ""
        /\ r.version = "" => r.owned = <<>>}

NamedCSVs(s) ==
    [n \in 1..Len(s) |-> [name |-> CSVNames[n], version |-> s[n].version,
                          versionErr |-> s[n].versionErr, owned |-> s[n].owned]]

Manifests ==
    {[PackageID |-> id, ClusterServiceVersions |-> NamedCSVs(s), CustomResourceDefinitions |-> c] :
        id \in PackageIDs, s \in SeqsUpTo(ReleaseShapes, MaxReleases), c \in CRDLists}

RegistryDirs == [b \in Builders |-> IF b = 1 THEN <<"registry1">> ELSE <<"registry2">>]

\* a directory of the package's usual name that is on disk before the builder runs
PreDir(b) == Join(RegistryDirs[b], "etcd")

PreFile(b) == Join(PreDir(b), "README")

NoCall == [op |-> "none", err |-> Nil]

\* the disk snapshot of a builder on which Create was not called yet
NoSnapshot == [dirs |-> {}, files |-> <<>>, faults |-> -1]

\* NewManifest with the root directory computed at construction
NewManifestEager(sm, dir) ==
    [singleManifest |-> sm, registryDir |-> dir, manifestDir |-> Join(dir, GetPackageID(sm))]

\* NewManifest lines 39-44: manifestDir is left at its zero value
NewManifest(sm, dir) ==
    [singleManifest |-> sm, registryDir |-> dir, manifestDir |-> NoDir]

\* NewManifest lines 39-44: singleManifest and registryDir are set, manifestDir
\* is the empty string. The disk of builder 1 is in any of the states the
\* caller may hand over; builder 2 has a fresh writable registry directory.
Init ==
    /\ singleManifest \in Manifests
    /\ registryDir = [b \in Builders |-> NewManifest(singleManifest, RegistryDirs[b]).registryDir]
    /\ manifestDir = [b \in Builders |-> NewManifest(singleManifest, RegistryDirs[b]).manifestDir]
    /\ pc = [b \in Builders |-> "idle"]
    /\ csvIdx = [b \in Builders |-> 0]
    /\ crdIdx = [b \in Builders |-> 0]
    /\ bundleDir = [b \in Builders |-> NoDir]
    /\ \E parent \in ParentStates, pre \in BOOLEAN :
        /\ pre => parent # "missing"
        /\ dirs = {RegistryDirs[2]}
                  \cup (IF parent # "missing" THEN {RegistryDirs[1]} ELSE {})
                  \cup (IF pre THEN {PreDir(1)} ELSE {})
        /\ files = IF pre THEN (PreFile(1) :> Foreign) ELSE <<>>
        /\ readonly = IF parent = "ro" THEN {RegistryDirs[1]} ELSE {}
    /\ faults = MaxFaults
    /\ last = [b \in Builders |-> NoCall]
    /\ prev = [b \in Builders |-> NoCall]
    /\ before = [b \in Builders |-> NoSnapshot]
    /\ firstErr = [b \in Builders |-> Nil]
    /\ errAt = [b \in Builders |-> 0]
    /\ perm = <<>>
    /\ call = NoCall

\* ---------------------------------------------------------------- steps
\* a call returns e to its caller
Returns(b, op, e) ==
    /\ pc' = [pc EXCEPT ![b] = "idle"]
    /\ last' = [last EXCEPT ![b] = [op |-> op, err |-> e]]

\* the transient errors the disk may raise on a system call that would
\* otherwise succeed
FaultSet(ok) == IF faults > 0 /\ ok THEN BOOLEAN ELSE {FALSE}

PartialSet(fault) == IF fault THEN BOOLEAN ELSE {FALSE}

Spend(fault) == faults' = IF fault THEN faults - 1 ELSE faults

\* the first error met in the running Create is remembered
Note(b, e, at) ==
    IF e # Nil /\ firstErr[b] = Nil
    THEN /\ firstErr' = [firstErr EXCEPT ![b] = e]
         /\ errAt' = [errAt EXCEPT ![b] = at]
    ELSE UNCHANGED <<firstErr, errAt>>

\* the part of a set of paths at and under the parent directory of builder b
UnderParent(b, S) == {p \in S : IsPrefix(registryDir[b], p)}

\* the disk at and under the parent directory of builder b
Snapshot(b) ==
    [dirs |-> UnderParent(b, dirs),
     files |-> [p \in UnderParent(b, DOMAIN files) |-> files[p]],
     faults |-> faults]

\* Create lines 46-50 with createManifestDir lines 141-144
CreateManifestDir(b) ==
    /\ pc[b] = "idle"
    /\ \E fault \in FaultSet(MkdirOK(ManifestDirOf(b))) :
        LET md == ManifestDirOf(b)
            r == createDir(md, fault)
        IN /\ manifestDir' = [manifestDir EXCEPT ![b] = md]
           /\ dirs' = r.dirs
           /\ perm' = r.perm
           /\ Spend(fault)
           /\ firstErr' = [firstErr EXCEPT ![b] = r.err]
           /\ IF r.err # Nil
              THEN Returns(b, "Create", r.err)
              ELSE /\ pc' = [pc EXCEPT ![b] = "createPackageYAML"]
                   /\ last' = [last EXCEPT ![b] = [op |-> "Create", err |-> Nil]]
    /\ before' = [before EXCEPT ![b] = Snapshot(b)]
    /\ errAt' = [errAt EXCEPT ![b] = 0]
    /\ prev' = [prev EXCEPT ![b] = NoCall]
    /\ UNCHANGED <<call, singleManifest, registryDir, csvIdx, crdIdx, bundleDir, files, readonly>>

\* Create goes on after createPackageYAML failed
CreateOnPackageYAMLErrorDropped(e) == Nil

\* Create lines 52-55: what Create does with the error e that
\* createPackageYAML returned: it returns it
CreateOnPackageYAMLError(e) == e

\* Create lines 52-63 with createPackageYAML lines 147-152; on success
\* createBundles is entered, which returns nil at once when there is no CSV
CreatePackageYAML(b) ==
    /\ pc[b] = "createPackageYAML"
    /\ \E fault \in FaultSet(OpenOK(PackageYAMLPath(b))) : \E partial \in PartialSet(fault) :
        LET r == createYAML(Package(singleManifest), PackageYAMLPath(b), fault, partial)
            e == IF r.err # Nil THEN CreateOnPackageYAMLError(r.err) ELSE Nil
        IN /\ files' = r.files
           /\ perm' = r.perm
           /\ Spend(fault)
           /\ Note(b, r.err, 0)
           /\ IF e # Nil
              THEN Returns(b, "Create", e) /\ UNCHANGED csvIdx
              ELSE IF Len(CSVs) = 0
              THEN Returns(b, "Create", Nil) /\ UNCHANGED csvIdx
              ELSE /\ pc' = [pc EXCEPT ![b] = "createBundleDir"]
                   /\ csvIdx' = [csvIdx EXCEPT ![b] = 1]
                   /\ UNCHANGED last
    /\ UNCHANGED <<call, singleManifest, registryDir, manifestDir, crdIdx, bundleDir, dirs,
                   readonly, before, prev>>

\* createBundle returned e to createBundles (lines 97-102), whose result is
\* what Create returns (lines 57-62)
BundleDone(b, e) ==
    LET o == IF e = Nil THEN [stop |-> FALSE, err |-> Nil] ELSE createBundlesOnError(e)
    IN /\ Note(b, e, csvIdx[b])
       /\ IF o.stop
          THEN Returns(b, "Create", o.err) /\ UNCHANGED csvIdx
          ELSE IF csvIdx[b] < Len(CSVs)
          THEN /\ pc' = [pc EXCEPT ![b] = "createBundleDir"]
               /\ csvIdx' = [csvIdx EXCEPT ![b] = @ + 1]
               /\ UNCHANGED last
          ELSE Returns(b, "Create", o.err) /\ UNCHANGED csvIdx

\* createBundle lines 66-70 with createBundleDir lines 83-94 and the start of
\* createCRDYAMLs lines 112-115
CreateBundleDir(b) ==
    /\ pc[b] = "createBundleDir"
    /\ LET csv == CSVs[csvIdx[b]]
           v == GetVersion(csv)
           dir == Join(manifestDir[b], v.version)
           usable == v.err = Nil /\ v.version # ""
           o == GetCustomResourceDefintions(csv)
       IN \E fault \in FaultSet(usable /\ MkdirOK(dir)) :
           LET r == createDir(dir, fault)
               e == IF v.err # Nil THEN v.err
                    ELSE IF v.version = "" THEN Err("noversion", <<>>, "", "")
                    ELSE r.err
           IN /\ dirs' = IF usable THEN r.dirs ELSE dirs
              /\ perm' = IF usable THEN r.perm ELSE perm
              /\ Spend(fault)
              /\ IF e # Nil
                 THEN BundleDone(b, e) /\ UNCHANGED <<bundleDir, crdIdx>>
                 ELSE /\ bundleDir' = [bundleDir EXCEPT ![b] = dir]
                      /\ IF o.err # Nil
                         THEN BundleDone(b, o.err) /\ UNCHANGED crdIdx
                         ELSE /\ crdIdx' = [crdIdx EXCEPT ![b] = 1]
                              /\ pc' = [pc EXCEPT ![b] =
                                          IF Len(o.owned) = 0 THEN "createCSVYAML"
                                          ELSE "createCRDYAMLs"]
                              /\ UNCHANGED <<csvIdx, last, firstErr, errAt>>
    /\ UNCHANGED <<call, singleManifest, registryDir, manifestDir, files, readonly, before, prev>>

\* createBundle lines 71-74: what createBundle does with the error e that
\* createCRDYAMLs returned: it returns it
createBundleOnCRDErrorDropped(e) == Nil

createBundleOnCRDError(e) == e

\* createCRDYAMLs lines 122-132 with createCRDYAML lines 105-107: one turn of
\* the loop over the owned keys
CreateCRDYAML(b) ==
    /\ pc[b] = "createCRDYAMLs"
    /\ LET csv == CSVs[csvIdx[b]]
           owned == GetCustomResourceDefintions(csv).owned
           key == owned[crdIdx[b]]
           found == CrdMapFound(key)
           file == IF found THEN CRDYAMLPath(CrdMap(key), bundleDir[b]) ELSE NoDir
       IN \E fault \in FaultSet(found /\ OpenOK(file)) : \E partial \in PartialSet(fault) :
           LET r == IF found THEN createYAML(CrdMap(key), file, fault, partial)
                    ELSE [err |-> Err("notfound", <<>>, CSVGetName(csv), key),
                          files |-> files, perm |-> perm]
               e == IF r.err # Nil THEN createBundleOnCRDError(r.err) ELSE Nil
           IN /\ files' = r.files
              /\ perm' = r.perm
              /\ Spend(fault)
              /\ IF e # Nil
                 THEN BundleDone(b, e) /\ UNCHANGED crdIdx
                 ELSE /\ IF r.err = Nil /\ crdIdx[b] < Len(owned)
                         THEN /\ crdIdx' = [crdIdx EXCEPT ![b] = @ + 1]
                              /\ UNCHANGED pc
                         ELSE /\ pc' = [pc EXCEPT ![b] = "createCSVYAML"]
                              /\ UNCHANGED crdIdx
                      /\ UNCHANGED <<csvIdx, last, firstErr, errAt>>
    /\ UNCHANGED <<call, singleManifest, registryDir, manifestDir, bundleDir, dirs, readonly,
                   before, prev>>

\* createBundle lines 75-79 with createCSVYAML lines 136-138
CreateCSVYAML(b) ==
    /\ pc[b] = "createCSVYAML"
    /\ LET csv == CSVs[csvIdx[b]]
           file == CSVYAMLPath(csv, bundleDir[b])
       IN \E fault \in FaultSet(OpenOK(file)) : \E partial \in PartialSet(fault) :
           LET r == createYAML(csv, file, fault, partial)
           IN /\ files' = r.files
              /\ perm' = r.perm
              /\ Spend(fault)
              /\ BundleDone(b, r.err)
    /\ UNCHANGED <<call, singleManifest, registryDir, manifestDir, crdIdx, bundleDir, dirs,
                   readonly, before, prev>>

\* Delete lines 154-159
Delete(b) ==
    /\ pc[b] = "idle"
    /\ IF manifestDir[b] = NoDir
       THEN /\ Returns(b, "Delete", Nil)
            /\ UNCHANGED <<dirs, files, readonly, perm>>
       ELSE LET r == RemoveAll(manifestDir[b])
            IN /\ dirs' = r.dirs
               /\ files' = r.files
               /\ readonly' = r.readonly
               /\ perm' = r.perm
               /\ Returns(b, "Delete", r.err)
    /\ prev' = [prev EXCEPT ![b] = last[b]]
    /\ UNCHANGED <<call, singleManifest, registryDir, manifestDir, csvIdx, crdIdx, bundleDir,
                   faults, before, firstErr, errAt>>

Step(b) ==
    \/ CreateManifestDir(b)
    \/ CreatePackageYAML(b)
    \/ CreateBundleDir(b)
    \/ CreateCRDYAML(b)
    \/ CreateCSVYAML(b)
    \/ Delete(b)

\* one builder at work
Next == Step(1)

Spec == Init /\ [][Next]_vars

\* ---------------------------------------------------------------- properties
InCreate(b) == pc[b] # "idle"

Returned(b, op) == pc[b] = "idle" /\ last[b].op = op

\* <parentDir>/<packageID>
Root(b) == IF singleManifest.PackageID = "" THEN registryDir[b]
           ELSE registryDir[b] \o <<singleManifest.PackageID>>

PackagePath(b) == Root(b) \o <<singleManifest.PackageID \o ".package.yaml">>

Usable(csv) == ~csv.versionErr /\ csv.version # ""

BundlePath(b, csv) == Root(b) \o <<csv.version>>

DescriptorPath(b, csv) == BundlePath(b, csv) \o <<csv.name \o ".csv.yaml">>

DefinitionPath(b, csv, key) == BundlePath(b, csv) \o <<CrdMap(key).name \o ".crd.yaml">>

OwnedKeys(csv) == {csv.owned[k] : k \in 1..Len(csv.owned)}

OwnedDefs(csv) == {CrdMap(key) : key \in OwnedKeys(csv)}

Releases == {CSVs[n] : n \in 1..Len(CSVs)}

\* every release has a non-empty version and every owned reference resolves
ValidModel == \A csv \in Releases : Usable(csv) /\ \A key \in OwnedKeys(csv) : CrdMapFound(key)

DistinctVersions == \A m, n \in 1..Len(CSVs) : m # n => CSVs[m].version # CSVs[n].version

DistinctNames == \A csv \in Releases : \A c, d \in OwnedDefs(csv) : c # d => c.name # d.name

RootWasAbsent(b) == Root(b) \notin before[b].dirs \cup DOMAIN before[b].files

\* the last Create was called on a disk where the root could be made, and the
\* disk raised no transient error during the call
GoodDisk(b) ==
    /\ RootWasAbsent(b)
    /\ Parent(Root(b)) = <<>> \/ Parent(Root(b)) \in before[b].dirs
    /\ Parent(Root(b)) \notin readonly
    /\ faults = before[b].faults

ExpectedTree(b) ==
    {Root(b), PackagePath(b)}
    \cup {BundlePath(b, csv) : csv \in Releases}
    \cup {DescriptorPath(b, csv) : csv \in Releases}
    \cup UNION {{DefinitionPath(b, csv, key) : key \in OwnedKeys(csv)} : csv \in Releases}

ExactTree(b) ==
    /\ Under(Root(b)) = ExpectedTree(b)
    /\ PackagePath(b) \in DOMAIN files
    /\ Cardinality({d \in dirs : Parent(d) = Root(b)}) = Len(CSVs)
    /\ \A csv \in Releases :
        /\ BundlePath(b, csv) \in dirs
        /\ DescriptorPath(b, csv) \in DOMAIN files
        /\ Cardinality({f \in DOMAIN files : Parent(f) = BundlePath(b, csv)})
               = Cardinality(OwnedDefs(csv)) + 1

\* C1 as stated (read on a usable disk): for a valid model, Create returns
\* nil and the tree has exactly one directory per release holding exactly one
\* file per owned definition and the release descriptor, next to the package
\* descriptor.
C1_TotalityAsStated ==
    \A b \in Builders :
        Returned(b, "Create") /\ ValidModel /\ GoodDisk(b)
            => last[b].err = Nil /\ ExactTree(b)

\* C1 amended: the same for a valid model whose releases have pairwise
\* distinct versions and whose owned definitions, per release, have pairwise
\* distinct names.
C1_Totality ==
    \A b \in Builders :
        Returned(b, "Create") /\ ValidModel /\ DistinctVersions /\ DistinctNames /\ GoodDisk(b)
            => last[b].err = Nil /\ ExactTree(b)

C1_Witness ==
    \E b \in Builders :
        /\ Returned(b, "Create") /\ ValidModel /\ DistinctVersions /\ DistinctNames /\ GoodDisk(b)
        /\ Len(CSVs) = 2
        /\ \A csv \in Releases : Len(csv.owned) = 2

TreeComplete(b) ==
    /\ Root(b) \in dirs
    /\ PackagePath(b) \in DOMAIN files
    /\ \A csv \in Releases :
        /\ Usable(csv)
        /\ BundlePath(b, csv) \in dirs
        /\ DescriptorPath(b, csv) \in DOMAIN files
        /\ \A key \in OwnedKeys(csv) :
            CrdMapFound(key) /\ DefinitionPath(b, csv, key) \in DOMAIN files

\* C2: whenever Create returned nil, every release has its version directory
\* with its descriptor and a file for each definition it owns, and the
\* package descriptor exists.
C2_SuccessMeansComplete ==
    \A b \in Builders :
        Returned(b, "Create") /\ last[b].err = Nil => TreeComplete(b)

\* a Create call of b returns in this step
CreateReturns(b) ==
    /\ pc'[b] = "idle"
    /\ last'[b].op = "Create"

\* C3: Create returns the first error it met, and once a release failed no
\* directory or file is created in the rest of that call.
C3_FailFast ==
    [][\A b \in Builders :
          /\ CreateReturns(b) => last'[b].err = firstErr'[b]
          /\ InCreate(b) /\ errAt[b] # 0
                => dirs' \subseteq dirs /\ DOMAIN files' \subseteq DOMAIN files]_vars

\* C4: with a release whose version is absent or empty, Create returns an
\* error, and no directory is made for that release.
C4_MissingVersionAborts ==
    \A b \in Builders :
        Returned(b, "Create") /\ (\E csv \in Releases : ~Usable(csv))
            => /\ last[b].err # Nil
               /\ RootWasAbsent(b) =>
                    Cardinality({d \in dirs : Parent(d) = Root(b)})
                        <= Cardinality({csv \in Releases : Usable(csv)})

Unresolved(csv, key) == Usable(csv) /\ key \in OwnedKeys(csv) /\ ~CrdMapFound(key)

\* C5: with a release owning a key that is not in the package's CRDs, Create
\* returns an error, and a not-found error names such a release and key.
C5_MissingReferenceAborts ==
    \A b \in Builders :
        Returned(b, "Create") /\ (\E csv \in Releases : \E key \in Keys : Unresolved(csv, key))
            => /\ last[b].err # Nil
               /\ last[b].err.kind = "notfound" =>
                    \E csv \in Releases : \E key \in Keys :
                        /\ Unresolved(csv, key)
                        /\ last[b].err.csv = csv.name
                        /\ last[b].err.key = key

BadParent(b) == registryDir[b] \notin before[b].dirs \/ registryDir[b] \in readonly

\* C6: called with a parent directory that does not exist or is not
\* writable, Create returns an error and creates nothing.
C6_BadRootFailsFast ==
    \A b \in Builders :
        Returned(b, "Create") /\ BadParent(b)
            => /\ last[b].err # Nil
               /\ UnderParent(b, dirs) = before[b].dirs
               /\ [p \in UnderParent(b, DOMAIN files) |-> files[p]] = before[b].files

SameUnderParent(b) ==
    /\ UnderParent(b, dirs) = UnderParent(b, before[b].dirs)
    /\ UnderParent(b, DOMAIN files) = UnderParent(b, DOMAIN before[b].files)
    /\ \A p \in UnderParent(b, DOMAIN files) : files[p] = before[b].files[p]

\* C7: when the root did not exist before Create, Create followed by Delete
\* leaves the disk under the parent directory as it was before Create,
\* wherever Create failed and also when it succeeded.
C7_RollBack ==
    \A b \in Builders :
        Returned(b, "Delete") /\ prev[b].op = "Create" /\ RootWasAbsent(b)
            => SameUnderParent(b)

C7_Witness ==
    \E b \in Builders :
        /\ Returned(b, "Delete") /\ prev[b].op = "Create" /\ RootWasAbsent(b)
        /\ errAt[b] = 2
        /\ Len(CSVs[1].owned) = 2 /\ Usable(CSVs[1])

\* C8 as stated: after any Delete that returned nil nothing exists at or
\* under <parentDir>/<packageID>.
C8_DeleteCompleteAsStated ==
    \A b \in Builders :
        Returned(b, "Delete") /\ last[b].err = Nil => Under(Root(b)) = {}

\* C8 amended: after a Delete that returned nil on a builder whose Create was
\* called before (manifestDir is set), nothing exists at or under
\* <parentDir>/<packageID>.
C8_DeleteComplete ==
    \A b \in Builders :
        Returned(b, "Delete") /\ last[b].err = Nil /\ manifestDir[b] # NoDir
            => Under(Root(b)) = {}

C8_Witness ==
    \E b \in Builders :
        /\ Returned(b, "Delete") /\ last[b].err = Nil
        /\ prev[b] = [op |-> "Create", err |-> Nil]
        /\ RootWasAbsent(b) /\ Len(CSVs) = 2 /\ errAt[b] = 0 /\ firstErr[b] = Nil

\* C9 as stated: Delete returns nil when Create was never called, and when it
\* is called right after another Delete.
C9_IdempotentDeleteAsStated ==
    \A b \in Builders :
        Returned(b, "Delete") /\ (manifestDir[b] = NoDir \/ prev[b].op = "Delete")
            => last[b].err = Nil

\* C9 amended: Delete returns nil when Create was never called, and when it
\* is called right after another Delete that returned nil.
C9_IdempotentDelete ==
    \A b \in Builders :
        Returned(b, "Delete")
        /\ (manifestDir[b] = NoDir \/ prev[b] = [op |-> "Delete", err |-> Nil])
            => last[b].err = Nil

C9_Witness ==
    \E b \in Builders :
        /\ Returned(b, "Delete")
        /\ prev[b] = [op |-> "Delete", err |-> Nil]
        /\ manifestDir[b] # NoDir
        /\ before[b].dirs # UnderParent(b, dirs) \/ Len(CSVs) > 0

\* C10: in every state, a release whose descriptor file is in its version
\* directory has a file there for every definition it owns, all of which
\* resolve.
C10_DescriptorLast ==
    \A b \in Builders : \A csv \in Releases :
        Usable(csv) /\ DescriptorPath(b, csv) \in DOMAIN files
            => \A key \in OwnedKeys(csv) :
                   CrdMapFound(key) /\ DefinitionPath(b, csv, key) \in DOMAIN files

C10_Witness ==
    \E b \in Builders : \E csv \in Releases :
        /\ InCreate(b)
        /\ Usable(csv) /\ DescriptorPath(b, csv) \in DOMAIN files
        /\ Len(csv.owned) = 2

\* builder b takes a step of Create or returns from it
Moves(b) == <<pc[b], csvIdx[b], crdIdx[b]>> # <<pc'[b], csvIdx'[b], crdIdx'[b]>>

\* the release createBundles is at has the version of an earlier release,
\* whose directory is on disk
DuplicateVersion(b) ==
    /\ pc[b] = "createBundleDir"
    /\ Usable(CSVs[csvIdx[b]])
    /\ BundlePath(b, CSVs[csvIdx[b]]) \in dirs
    /\ \E m \in 1..(csvIdx[b] - 1) : CSVs[m].version = CSVs[csvIdx[b]].version

\* C11: when the version directory of a release is there already, made for an
\* earlier release of the same version, the materialization of the later
\* release fails at the directory creation with an error and does not go on
\* to its definition files or its descriptor: no file and no directory is
\* written.
C11_NoMerge ==
    [][\A b \in Builders :
          DuplicateVersion(b) /\ Moves(b)
            => /\ dirs' = dirs
               /\ files' = files
               /\ firstErr'[b] # Nil
               /\ firstErr[b] = Nil =>
                    /\ firstErr'[b] = Err("mkdir", BundlePath(b, CSVs[csvIdx[b]]), "", "")
                    /\ errAt'[b] = csvIdx[b]
               /\ ~(csvIdx'[b] = csvIdx[b] /\ pc'[b] \in {"createCRDYAMLs", "createCSVYAML"})]_vars

C11_Witness ==
    \E b \in Builders :
        /\ Returned(b, "Create")
        /\ Len(CSVs) = 2 /\ Usable(CSVs[1]) /\ CSVs[1].version = CSVs[2].version
        /\ Len(CSVs[2].owned) = 2 /\ Len(CSVs[1].owned) = 0
        /\ DescriptorPath(b, CSVs[1]) \in DOMAIN files
        /\ firstErr[b] = Err("mkdir", BundlePath(b, CSVs[2]), "", "")
        /\ errAt[b] = 2

\* builder b is the one that takes the step
Acts(b) == Moves(b) \/ last'[b] # last[b] \/ prev'[b] # prev[b]

\* the paths a step creates, removes or rewrites
Changed ==
    (dirs' \ dirs) \cup (dirs \ dirs')
    \cup {p \in DOMAIN files \cup DOMAIN files' :
            \/ p \notin DOMAIN files
            \/ p \notin DOMAIN files'
            \/ files'[p] # files[p]}

StrictlyBeneath(dir, p) == IsPrefix(dir, p) /\ p # dir

\* C12: for every package identifier, the empty one included, every path a
\* step of Create or Delete creates, removes or rewrites is strictly beneath
\* the parent directory of the builder that takes the step; the parent
\* directory itself is never created or removed.
C12_Confinement ==
    [][\A p \in Changed : \E b \in Builders : Acts(b) /\ StrictlyBeneath(registryDir[b], p)]_vars

\* ---------------------------------------------------------------- createYAML called directly
\* the values createYAML is handed: a package, a CRD, a CSV, and a value with
\* a field encoding/json has no encoding for
Objects ==
    {[packageName |-> "etcd"],
     [key |-> "EtcdCluster", name |-> "etcdclusters"],
     [name |-> "etcdoperator.v1", version |-> "0.6.1", versionErr |-> FALSE, owned |-> <<>>],
     [name |-> "etcdoperator.v1", callback |-> "func"]}

RODir == <<"registry1", "ro">>

\* the destinations: in a writable directory, in a directory that is not
\* writable, in a directory that is not there, and a directory
Targets ==
    {<<"registry1", "a.yaml">>, RODir \o <<"b.yaml">>, <<"registry1", "none", "c.yaml">>, RODir}

\* the files on disk before the first call: each absent, not written by the
\* serializer, or the document of a value written before
OldContents == {Foreign} \cup {Marshal(obj).raw : obj \in {o \in Objects : ~Unserializable(o)}}

SerializerInit ==
    /\ singleManifest = [PackageID |-> "etcd", ClusterServiceVersions |-> <<>>,
                         CustomResourceDefinitions |-> <<>>]
    /\ registryDir = [b \in Builders |-> NewManifest(singleManifest, RegistryDirs[b]).registryDir]
    /\ manifestDir = [b \in Builders |-> NewManifest(singleManifest, RegistryDirs[b]).manifestDir]
    /\ pc = [b \in Builders |-> "idle"]
    /\ csvIdx = [b \in Builders |-> 0]
    /\ crdIdx = [b \in Builders |-> 0]
    /\ bundleDir = [b \in Builders |-> NoDir]
    /\ dirs = {RegistryDirs[1], RODir}
    /\ readonly = {RODir}
    /\ \E S \in SUBSET {t \in Targets : Parent(t) \in dirs /\ t \notin dirs} :
           files \in [S -> OldContents]
    /\ faults = MaxFaults
    /\ last = [b \in Builders |-> NoCall]
    /\ prev = [b \in Builders |-> NoCall]
    /\ before = [b \in Builders |-> NoSnapshot]
    /\ firstErr = [b \in Builders |-> Nil]
    /\ errAt = [b \in Builders |-> 0]
    /\ perm = <<>>
    /\ call = NoCall

\* createYAML(obj, file) lines 169-181, called on its own
CallCreateYAML(obj, file) ==
    \E fault \in FaultSet(~Unserializable(obj) /\ OpenOK(file)) : \E partial \in PartialSet(fault) :
        LET r == createYAML(obj, file, fault, partial)
        IN /\ files' = r.files
           /\ perm' = r.perm
           /\ Spend(fault)
           /\ call' = [op |-> "createYAML", obj |-> obj, file |-> file, err |-> r.err,
                       files |-> files]
           /\ UNCHANGED <<singleManifest, registryDir, manifestDir, pc, csvIdx, crdIdx,
                          bundleDir, dirs, readonly, last, prev, before, firstErr, errAt>>

SerializerNext == \E obj \in Objects, file \in Targets : CallCreateYAML(obj, file)

SerializerSpec == SerializerInit /\ [][SerializerNext]_vars

\* C13: when createYAML is handed a value that cannot be serialized it
\* returns an error, and the disk is as it was before the call: the
\* destination is not created, not truncated and not changed.
C13_NothingWrittenOnMarshalFailure ==
    call.op = "createYAML" /\ Unserializable(call.obj)
        => call.err # Nil /\ files = call.files

C13_Witness ==
    /\ call.op = "createYAML" /\ Unserializable(call.obj)
    /\ OpenOK(call.file)
    /\ call.file \in DOMAIN call.files
    /\ "yaml" \in DOMAIN call.files[call.file]

\* bit k (its octal weight as a number) is set in mode m
Bit(m, k) == (m \div k) % 2 = 1

\* rwx for the owner and nothing else: 0700
OwnerOnly(m) == m = 256 + 128 + 64

\* rw for the owner, no write bit for group and others
OwnerWrites(m) == Bit(m, 256) /\ Bit(m, 128) /\ ~Bit(m, 16) /\ ~Bit(m, 2)

\* C14: every directory the builder made was requested with mode 0700, and
\* every file it made was requested with owner read/write and without the
\* write bit for group and others.
C14_Permissions ==
    \A p \in DOMAIN perm :
        /\ p \in dirs => OwnerOnly(perm[p])
        /\ p \in DOMAIN files => OwnerWrites(perm[p])

\* the model objects Create serializes into the file at path p
Sources(b, p) ==
    {o \in {Package(singleManifest)} : p = PackagePath(b)}
    \cup {csv \in Releases : Usable(csv) /\ p = DescriptorPath(b, csv)}
    \cup UNION {{CrdMap(key) : key \in {k \in OwnedKeys(csv) :
                                          CrdMapFound(k) /\ p = DefinitionPath(b, csv, k)}} :
                  csv \in {r \in Releases : Usable(r)}}

\* the contents parse, and into the fields and values of the object o
RoundTrips(raw, o) == Unmarshal(raw).err = Nil /\ Unmarshal(raw).obj = o

\* C15: after a Create that returned nil and made the tree, every file of
\* the tree parses back into a document with the field values of a model
\* object that Create serialized into it.
C15_RoundTrip ==
    \A b \in Builders :
        Returned(b, "Create") /\ last[b].err = Nil /\ RootWasAbsent(b)
            => \A p \in Under(Root(b)) \cap DOMAIN files :
                   \E o \in Sources(b, p) : RoundTrips(files[p], o)

\* the directories and files a step creates
New == (dirs' \ dirs) \cup (DOMAIN files' \ DOMAIN files)

InBundle(b) == pc[b] \in {"createBundleDir", "createCRDYAMLs", "createCSVYAML"}

\* C16: in every step of a Create call that creates something: the first
\* step creates the root and nothing else, and every later step finds the
\* root made by this call; the package descriptor is written with the root
\* there; a release directory is made only with the package descriptor
\* completely written; releases are taken in the order of the model, each
\* step creating only in the directory of the release it is at; and the
\* parent directory of everything created but the root was made earlier in
\* the same call.
C16_ConstructionOrder ==
    [][\A b \in Builders :
          Moves(b) /\ New # {}
            => /\ pc[b] = "idle" => New = {Root(b)}
               /\ pc[b] # "idle" => Root(b) \in dirs \ before[b].dirs
               /\ PackagePath(b) \in New => pc[b] = "createPackageYAML" /\ Root(b) \in dirs
               /\ \A p \in New \cap dirs' :
                     p # Root(b) =>
                        /\ PackagePath(b) \in DOMAIN files
                        /\ RoundTrips(files[PackagePath(b)], Package(singleManifest))
               /\ pc[b] = "createPackageYAML" /\ pc'[b] # "idle" => csvIdx'[b] = 1
               /\ InBundle(b) =>
                     /\ pc'[b] # "idle" => csvIdx'[b] \in {csvIdx[b], csvIdx[b] + 1}
                     /\ \A p \in New : IsPrefix(BundlePath(b, CSVs[csvIdx[b]]), p)
               /\ \A p \in New :
                     p # Root(b) => Parent(p) \in dirs \ before[b].dirs]_vars

C16_Witness ==
    \E b \in Builders :
        /\ pc[b] = "createCSVYAML" /\ csvIdx[b] = 2
        /\ DistinctVersions
        /\ \A csv \in Releases : Usable(csv) /\ Len(csv.owned) = 2
        /\ DescriptorPath(b, CSVs[1]) \in DOMAIN files
        /\ \A key \in OwnedKeys(CSVs[2]) : DefinitionPath(b, CSVs[2], key) \in DOMAIN files

\* Create was not called on builder b yet
NeverCreated(b) == before[b] = NoSnapshot

\* the step is a call of Delete on builder b
DeleteStep(b) ==
    /\ pc[b] = "idle" /\ pc'[b] = "idle"
    /\ last'[b].op = "Delete"
    /\ prev'[b] = last[b]
    /\ before'[b] = before[b]

\* C17: a Delete called on a builder on which Create was never called
\* returns nil and changes nothing on disk: no directory, no file, no
\* contents and no permission, also when <parentDir>/<packageID> is there.
C17_DeleteBeforeCreate ==
    [][\A b \in Builders :
          NeverCreated(b) /\ DeleteStep(b)
            => /\ last'[b].err = Nil
               /\ UNCHANGED <<dirs, files, readonly, perm>>]_vars

C17_Witness ==
    \E b \in Builders :
        /\ Returned(b, "Delete") /\ NeverCreated(b)
        /\ Root(b) = PreDir(b)
        /\ PreFile(b) \in DOMAIN files
        /\ registryDir[b] \in readonly

\* ---------------------------------------------------------------- two builders, one model
\* two builders made by NewManifest from the same SingleOperatorManifest,
\* each with a fresh writable parent directory of its own, on a disk that
\* raises no transient error
SharedManifests ==
    {[PackageID |-> id, ClusterServiceVersions |-> NamedCSVs(s), CustomResourceDefinitions |-> c] :
        id \in PackageIDs, s \in SeqsUpTo(ReleaseShapes, MaxShared), c \in CRDLists}

SharedInit ==
    /\ singleManifest \in SharedManifests
    /\ registryDir = [b \in Builders |-> NewManifest(singleManifest, RegistryDirs[b]).registryDir]
    /\ manifestDir = [b \in Builders |-> NewManifest(singleManifest, RegistryDirs[b]).manifestDir]
    /\ pc = [b \in Builders |-> "idle"]
    /\ csvIdx = [b \in Builders |-> 0]
    /\ crdIdx = [b \in Builders |-> 0]
    /\ bundleDir = [b \in Builders |-> NoDir]
    /\ dirs = {RegistryDirs[b] : b \in Builders}
    /\ files = <<>>
    /\ readonly = {}
    /\ faults = 0
    /\ last = [b \in Builders |-> NoCall]
    /\ prev = [b \in Builders |-> NoCall]
    /\ before = [b \in Builders |-> NoSnapshot]
    /\ firstErr = [b \in Builders |-> Nil]
    /\ errAt = [b \in Builders |-> 0]
    /\ perm = <<>>
    /\ call = NoCall

\* the steps of the two builders in any order
SharedNext == Step(1) \/ Step(2)

SharedSpec == SharedInit /\ [][SharedNext]_vars

\* What a Create of builder b run alone makes of the model on a disk without
\* its root: release n gets a directory when its version is usable and no
\* earlier release made that directory; its definition files are written up
\* to the first owned key that does not resolve; its descriptor is written
\* when all resolve.
MakesDir(n) ==
    /\ Usable(CSVs[n])
    /\ \A m \in 1..(n - 1) : ~(Usable(CSVs[m]) /\ CSVs[m].version = CSVs[n].version)

Written(n, k) == \A j \in 1..k : CrdMapFound(CSVs[n].owned[j])

AloneFiles(b) ==
    [p \in {PackagePath(b)} |-> Marshal(Package(singleManifest)).raw]
    @@ [p \in {DescriptorPath(b, CSVs[n]) :
                 n \in {m \in 1..Len(CSVs) : MakesDir(m) /\ Written(m, Len(CSVs[m].owned))}}
          |-> Marshal(CHOOSE csv \in Releases : Usable(csv) /\ DescriptorPath(b, csv) = p).raw]
    @@ [p \in UNION {{DefinitionPath(b, CSVs[n], CSVs[n].owned[k]) :
                         k \in {j \in 1..Len(CSVs[n].owned) : Written(n, j)}} :
                     n \in {m \in 1..Len(CSVs) : MakesDir(m)}}
          |-> LET n == CHOOSE m \in 1..Len(CSVs) :
                          MakesDir(m) /\ Parent(p) = BundlePath(b, CSVs[m])
                  k == CHOOSE j \in 1..Len(CSVs[n].owned) :
                          /\ Written(n, j)
                          /\ DefinitionPath(b, CSVs[n], CSVs[n].owned[j]) = p
                          /\ \A i \in (j + 1)..Len(CSVs[n].owned) :
                                ~(Written(n, i) /\ DefinitionPath(b, CSVs[n], CSVs[n].owned[i]) = p)
              IN Marshal(CrdMap(CSVs[n].owned[k])).raw]

AloneDirs(b) == {Root(b)} \cup {BundlePath(b, CSVs[n]) : n \in {m \in 1..Len(CSVs) : MakesDir(m)}}

\* the files at and under the root of builder b, with their contents
TreeFiles(b) == [p \in Under(Root(b)) \cap DOMAIN files |-> files[p]]

\* the result and the tree of the last call on builder b are those of the
\* call run alone
SameAsAlone(b) ==
    /\ Returned(b, "Create") /\ RootWasAbsent(b) =>
          /\ last[b].err = Nil
          /\ Under(Root(b)) \cap dirs = AloneDirs(b)
          /\ TreeFiles(b) = AloneFiles(b)
    /\ Returned(b, "Create") /\ ~RootWasAbsent(b) =>
          /\ last[b].err = Err("mkdir", Root(b), "", "")
          /\ SameUnderParent(b)
    /\ Returned(b, "Delete") =>
          /\ last[b].err = Nil
          /\ NeverCreated(b) \/ Under(Root(b)) = {}
          /\ NeverCreated(b) => Under(registryDir[b]) = {registryDir[b]}

\* C18: no step of Create or Delete changes the package model, and with the
\* steps of two builders on the same model and different parent directories
\* taken in any order, every call returns the result and leaves the tree
\* that it gives when the builder runs alone.
C18_SharedModel ==
    [][/\ singleManifest' = singleManifest
       /\ \A b \in Builders : SameAsAlone(b)']_vars

C18_Witness ==
    /\ pc[1] = "createCSVYAML" /\ RootWasAbsent(1)
    /\ pc[2] = "createCRDYAMLs" /\ crdIdx[2] = 2 /\ RootWasAbsent(2)
    /\ last[1].op = "Create" /\ prev[2].op = "none"
    /\ Len(CSVs[1].owned) = 2

\* C19: a Create called when <parentDir>/<packageID> is there returns an
\* error and leaves everything at and under the parent directory as it was:
\* nothing is added, nothing is removed and no file has other contents.
C19_NoUpdateInPlace ==
    \A b \in Builders :
        Returned(b, "Create") /\ ~RootWasAbsent(b)
            => last[b].err # Nil /\ SameUnderParent(b)

\* a second Create on a builder whose first Create made the whole tree
C19_Witness ==
    \E b \in Builders :
        /\ Returned(b, "Create") /\ ~RootWasAbsent(b)
        /\ PackagePath(b) \in DOMAIN before[b].files
        /\ Len(CSVs) = 2
        /\ \A csv \in Releases : DescriptorPath(b, csv) \in DOMAIN before[b].files

\* C20: no step of a Create call writes a file that is there already, so a
\* file written in the call keeps the contents of its first write; two
\* definitions owned by one release are never written to the same file.
C20_NoOverwrite ==
    [][\A b \in Builders :
          Moves(b) /\ pc[b] # "idle"
            => \A p \in DOMAIN files \cap DOMAIN files' : files'[p] = files[p]]_vars

====
